---- MODULE Spec2Model ----
(***************************************************************************)
(* A model of pygaarst.raster: the Landsat scene container and its band    *)
(* lookup (Landsatscene), the band object and its radiometric properties   *)
(* (Landsatband), and the GeoTIFF clone operation.                         *)
(*                                                                         *)
(* Text is modelled as a sequence of one-character strings, so that        *)
(* str.lower, str.upper, str.partition, str.replace and the %-formatting   *)
(* of metadata keys are computed character by character.                   *)
(***************************************************************************)
EXTENDS Integers, Sequences, FiniteSets, TLC

VARIABLES
    scene,      \* the Landsatscene object, or NoScene before construction
    bands,      \* scene.bands: band label -> identity of the stored Landsatband
    nobjects,   \* number of Landsatband objects constructed by the scene so far
    lband,      \* a Landsatband object under direct use, or NoBand
    fs,         \* the raster files created by clone
    result,     \* outcome of the last operation
    log         \* records logged by the last operation

vars == <<scene, bands, nobjects, lband, fs, result, log>>

(***************************************************************************)
(* Bounds                                                                  *)
(***************************************************************************)
\* Landsatband objects one scene may construct in a run.
MaxObjects == 2
\* Largest calibration coefficient a metadata file gives.
MaxCoeff == 2
\* Largest number of bands of a raster, and the raster's rows and columns.
MaxBands == 4
NRows == 2
NCols == 3

(***************************************************************************)
(* Text helpers: Python str methods                                        *)
(***************************************************************************)
Letters ==
    << <<"a","A">>, <<"b","B">>, <<"c","C">>, <<"d","D">>, <<"e","E">>,
       <<"f","F">>, <<"g","G">>, <<"h","H">>, <<"i","I">>, <<"j","J">>,
       <<"k","K">>, <<"l","L">>, <<"m","M">>, <<"n","N">>, <<"o","O">>,
       <<"p","P">>, <<"q","Q">>, <<"r","R">>, <<"s","S">>, <<"t","T">>,
       <<"u","U">>, <<"v","V">>, <<"w","W">>, <<"x","X">>, <<"y","Y">>,
       <<"z","Z">> >>

LowerMap ==
    [ c \in { Letters[i][2] : i \in 1..Len(Letters) } |->
        Letters[CHOOSE i \in 1..Len(Letters) : Letters[i][2] = c][1] ]

UpperMap ==
    [ c \in { Letters[i][1] : i \in 1..Len(Letters) } |->
        Letters[CHOOSE i \in 1..Len(Letters) : Letters[i][1] = c][2] ]

LowerChar(c) == IF c \in DOMAIN LowerMap THEN LowerMap[c] ELSE c

UpperChar(c) == IF c \in DOMAIN UpperMap THEN UpperMap[c] ELSE c

\* str.lower()
Lower(s) == [i \in 1..Len(s) |-> LowerChar(s[i])]

\* str.upper()
Upper(s) == [i \in 1..Len(s) |-> UpperChar(s[i])]

\* The positions at which sep occurs in s.
Occurrences(s, sep) ==
    { i \in 1..(Len(s) + 1 - Len(sep)) : SubSeq(s, i, i + Len(sep) - 1) = sep }

Min(S) == CHOOSE m \in S : \A n \in S : m <= n

\* str.partition(sep): split at the first occurrence of sep.
Partition(s, sep) ==
    IF Occurrences(s, sep) = {}
    THEN << s, << >>, << >> >>
    ELSE LET i == Min(Occurrences(s, sep))
         IN  << SubSeq(s, 1, i - 1), sep, SubSeq(s, i + Len(sep), Len(s)) >>

\* str.replace(old, new) for a one-character old.
RECURSIVE Replace(_, _, _)
Replace(s, old, new) ==
    IF s = << >> THEN << >>
    ELSE (IF Head(s) = old THEN new ELSE << Head(s) >>)
         \o Replace(Tail(s), old, new)

\* sep.join(list)
RECURSIVE Join(_, _)
Join(sep, list) ==
    IF list = << >> THEN << >>
    ELSE IF Len(list) = 1 THEN list[1]
    ELSE list[1] \o sep \o Join(sep, Tail(list))

\* s.startswith(prefix)
StartsWith(s, prefix) ==
    Len(s) >= Len(prefix) /\ SubSeq(s, 1, Len(prefix)) = prefix

\* member in list
InList(x, list) == \E i \in 1..Len(list) : list[i] = x

Digits == << "0", "1", "2", "3", "4", "5", "6", "7", "8", "9" >>

DigitValue(c) == (CHOOSE i \in 1..Len(Digits) : Digits[i] = c) - 1

\* int(s) for a string of decimal digits
RECURSIVE ParseInt(_)
ParseInt(s) ==
    IF Len(s) = 1 THEN DigitValue(s[1])
    ELSE 10 * ParseInt(SubSeq(s, 1, Len(s) - 1)) + DigitValue(s[Len(s)])

(***************************************************************************)
(* Text constants                                                          *)
(***************************************************************************)
T_band == << "b", "a", "n", "d" >>
T_FILE_NAME_BAND_ ==
    << "F","I","L","E","_","N","A","M","E","_","B","A","N","D","_" >>
T_BAND == << "B", "A", "N", "D" >>
T__FILE_NAME == << "_","F","I","L","E","_","N","A","M","E" >>
T__VCID_1 == << "_","V","C","I","D","_","1" >>
T__VCID_2 == << "_","V","C","I","D","_","2" >>
T_L8 == << "L", "8" >>
T_L7 == << "L", "7" >>
T_L5 == << "L", "5" >>
T_L4 == << "L", "4" >>

T_LANDSAT_8 == << "L","A","N","D","S","A","T","_","8" >>
T_LANDSAT_7 == << "L","A","N","D","S","A","T","_","7" >>
T_Landsat5 == << "L","a","n","d","s","a","t","5" >>
\* PROCESSING_SOFTWARE_VERSION / PROCESSING_SOFTWARE values
T_LPGS_2_3_0 == << "L","P","G","S","_","2",".","3",".","0" >>
T_LPGS_11_1_0 == << "L","P","G","S","_","1","1",".","1",".","0" >>

Label(a) == << a >>
Label2(a, b) == << a, b >>

(***************************************************************************)
(* pygaarst.landsatutils: band tables used by the scene                    *)
(***************************************************************************)
LANDSATBANDS_TM ==
    << Label("1"), Label("2"), Label("3"), Label("4"), Label("5"),
       Label("6"), Label("7") >>
LANDSATBANDS_ETM ==
    << Label("1"), Label("2"), Label("3"), Label("4"), Label("5"),
       Label2("6","L"), Label2("6","H"), Label("7"), Label("8") >>
LANDSATBANDS_OLI ==
    << Label("1"), Label("2"), Label("3"), Label("4"), Label("5"),
       Label("6"), Label("7"), Label("8"), Label("9"),
       Label2("1","0"), Label2("1","1") >>

\* lu.get_bands(spacecraft): the permissible band labels of a spacecraft
get_bands(spacecraft) ==
    IF spacecraft = T_L8 THEN LANDSATBANDS_OLI
    ELSE IF spacecraft = T_L7 THEN LANDSATBANDS_ETM
    ELSE LANDSATBANDS_TM

\* lu.NDVI_BANDS[spacecraft]: the (near infrared, red) attribute names
NDVI_BANDS(spacecraft) ==
    IF spacecraft = T_L8
    THEN << T_band \o Label("5"), T_band \o Label("4") >>
    ELSE << T_band \o Label("4"), T_band \o Label("3") >>

\* lu.NBR_BANDS[spacecraft]: the (near infrared, short-wave infrared) names
NBR_BANDS(spacecraft) ==
    IF spacecraft = T_L8
    THEN << T_band \o Label("5"), T_band \o Label("7") >>
    ELSE << T_band \o Label("4"), T_band \o Label("7") >>

(***************************************************************************)
(* The metadata files a scene directory may hold (lu.parsemeta's result).  *)
(* filekeys are the band file-name keys of the PRODUCT_METADATA group, as  *)
(* the USGS writes them in the two generations of the format.              *)
(***************************************************************************)
USGSFileKeys(newformat, spacecraft) ==
    IF newformat
    THEN IF spacecraft = T_L7
         THEN { T_FILE_NAME_BAND_ \o Label(d) :
                    d \in {"1","2","3","4","5","7","8"} }
              \cup { T_FILE_NAME_BAND_ \o << "6" >> \o T__VCID_1,
                     T_FILE_NAME_BAND_ \o << "6" >> \o T__VCID_2 }
         ELSE { T_FILE_NAME_BAND_ \o get_bands(spacecraft)[i] :
                    i \in 1..Len(get_bands(spacecraft)) }
    ELSE IF spacecraft = T_L7
         THEN { T_BAND \o Label(d) \o T__FILE_NAME :
                    d \in {"1","2","3","4","5","7","8"} }
              \cup { T_BAND \o << "6", "1" >> \o T__FILE_NAME,
                     T_BAND \o << "6", "2" >> \o T__FILE_NAME }
         ELSE { T_BAND \o get_bands(spacecraft)[i] \o T__FILE_NAME :
                    i \in 1..Len(get_bands(spacecraft)) }

\* helper function _get_spacecraftid: 'Landsat_8' -> 'L8', 'Landsat5' -> 'L5'
GetSpacecraftId(spid) == << UpperChar(spid[1]), spid[Len(spid)] >>

SpacecraftIds == { T_LANDSAT_8, T_LANDSAT_7, T_Landsat5 }

\* A product may lack the file of one band (here: a band the indices use).
DroppedBands == { Label("3"), Label("4"), Label("7") }

DropKeys(keys, label) ==
    { k \in keys : k \notin { T_FILE_NAME_BAND_ \o label,
                              T_BAND \o label \o T__FILE_NAME } }

MetaFile(sid, nf, drop) ==
    [ has |-> {"SPACECRAFT_ID"} \cup
              (IF nf THEN {"PROCESSING_SOFTWARE_VERSION"}
                     ELSE {"PROCESSING_SOFTWARE"}),
      SPACECRAFT_ID |-> sid,
      versionstr |-> IF nf THEN T_LPGS_2_3_0 ELSE T_LPGS_11_1_0,
      filekeys |-> DropKeys(USGSFileKeys(nf, GetSpacecraftId(sid)), drop) ]

\* A metadata file without the spacecraft identifier.
MetaFileNoSpacecraft ==
    [ has |-> {"PROCESSING_SOFTWARE_VERSION"},
      SPACECRAFT_ID |-> << >>,
      versionstr |-> T_LPGS_2_3_0,
      filekeys |-> USGSFileKeys(TRUE, T_L8) ]

MetaFiles ==
    { MetaFile(sid, nf, drop) :
        sid \in SpacecraftIds, nf \in BOOLEAN, drop \in {<< >>} \cup DroppedBands }
    \cup { MetaFileNoSpacecraft }

(***************************************************************************)
(* Landsatscene                                                            *)
(***************************************************************************)
NoScene ==
    [ constructed |-> FALSE, infix |-> << >>, meta |-> MetaFileNoSpacecraft,
      newmetaformat |-> TRUE, spacecraft |-> << >>, majorswversion |-> 0,
      permissiblebands |-> << >> ]

NoResult == [ op |-> "none", kind |-> "none" ]

\* int(versionstr.split('.')[0][5:])
MajorVersion(versionstr) ==
    LET first == Partition(versionstr, << "." >>)[1]
    IN  ParseInt(SubSeq(first, 6, Len(first)))

\* Landsatscene.__init__, given the parsed metadata of the directory
SceneOf(meta) ==
    [ constructed |-> TRUE,
      infix |-> << >>,
      meta |-> meta,
      newmetaformat |-> "PROCESSING_SOFTWARE_VERSION" \in meta.has,
      spacecraft |-> GetSpacecraftId(meta.SPACECRAFT_ID),
      majorswversion |-> MajorVersion(meta.versionstr),
      permissiblebands |-> get_bands(GetSpacecraftId(meta.SPACECRAFT_ID)) ]

LandsatsceneInit(meta) ==
    /\ ~scene.constructed
    /\ IF "SPACECRAFT_ID" \notin meta.has
       THEN /\ result' = [ op |-> "Landsatscene", kind |-> "KeyError" ]
            /\ UNCHANGED scene
       ELSE /\ scene' = SceneOf(meta)
            /\ result' = [ op |-> "Landsatscene", kind |-> "ok" ]
    /\ bands' = << >>
    /\ nobjects' = 0
    /\ log' = << >>
    /\ UNCHANGED <<lband, fs>>

\* Attributes found by normal lookup, for which __getattr__ is never called.
T_bands == << "b", "a", "n", "d", "s" >>
T_infix == << "i", "n", "f", "i", "x" >>
OwnAttributes == { T_bands, T_infix }

\* BandKeyName with the two gain suffixes of the legacy format exchanged.
BandKeyName_SwappedGain(newmetaformat, band) ==
    IF newmetaformat
    THEN T_FILE_NAME_BAND_
           \o Replace(Replace(band, "L", T__VCID_1), "H", T__VCID_2)
    ELSE T_BAND
           \o Replace(Replace(band, "L", << "2" >>), "H", << "1" >>)
           \o T__FILE_NAME

\* BandKeyName using the legacy suffixes under both formats.
BandKeyName_LegacyTokens(newmetaformat, band) ==
    IF newmetaformat
    THEN T_FILE_NAME_BAND_
           \o Replace(Replace(band, "L", << "1" >>), "H", << "2" >>)
    ELSE T_BAND
           \o Replace(Replace(band, "L", << "1" >>), "H", << "2" >>)
           \o T__FILE_NAME

\* The metadata key under which the band's file name is looked up.
BandKeyName(newmetaformat, band) ==
    IF newmetaformat
    THEN T_FILE_NAME_BAND_
           \o Replace(Replace(band, "L", T__VCID_1), "H", T__VCID_2)
    ELSE T_BAND
           \o Replace(Replace(band, "L", << "1" >>), "H", << "2" >>)
           \o T__FILE_NAME

\* UnsupportedBandMessage without the list of permissible labels.
UnsupportedBandMessage_NoList(sc, band) ==
    << "Spacecraft " >> \o sc.spacecraft \o << " does not have a band " >>
    \o band \o << "." >>

\* The text of the error raised for a label the spacecraft does not have.
UnsupportedBandMessage(sc, band) ==
    << "Spacecraft " >> \o sc.spacecraft \o << " does not have a band " >>
    \o band \o << ". Permissible band labels are " >>
    \o Join(<< ",", " " >>, sc.permissiblebands) \o << "." >>

\* The label the scene reads out of an attribute name, and whether the
\* name is taken for a band name at all (head == '').
BandOfName(bandname) == Upper(Partition(Lower(bandname), T_band)[3])
HeadOfName(bandname) == Partition(Lower(bandname), T_band)[1]

\* Landsatscene.__getattr__(bandname): what the call does, short of the
\* update of self.bands.  opens: whether gdal.Open succeeds on the band file.
Getattr(sc, bandname, opens) ==
    LET band == BandOfName(bandname)
        isband == HeadOfName(bandname) = << >>
        keyname == BandKeyName(sc.newmetaformat, band)
        base == [ kind |-> "AttributeError", band |-> band, keyname |-> << >>,
                  message |-> << >>, infix |-> << >> ]
    IN  IF isband /\ ~InList(band, sc.permissiblebands)
        THEN [ base EXCEPT !.kind = "PygaarstRasterError",
                           !.message = UnsupportedBandMessage(sc, band) ]
        ELSE IF isband
        THEN IF keyname \notin sc.meta.filekeys
             THEN [ base EXCEPT !.kind = "KeyError", !.keyname = keyname ]
             ELSE IF ~opens
             THEN [ base EXCEPT !.kind = "RuntimeError", !.keyname = keyname,
                                !.infix = sc.infix ]
             ELSE [ base EXCEPT !.kind = "Landsatband", !.keyname = keyname,
                                !.infix = sc.infix ]
        ELSE IF bandname \in OwnAttributes
        THEN [ base EXCEPT !.kind = "attribute" ]
        ELSE base

\* self.bands[band] = Landsatband(...)
StoreBand(bs, band, obj) ==
    [ l \in (DOMAIN bs) \cup {band} |-> IF l = band THEN obj ELSE bs[l] ]

\* logging.error in GeoTIFF.__init__ when the file cannot be opened
OpenErrorLog(out) ==
    IF out.kind = "RuntimeError"
    THEN << [ level |-> "error", text |-> << "Could not open" >> ] >>
    ELSE << >>

\* The attribute names requested of a scene.
AttrNames ==
    { T_band \o Label("4"), T_band \o Label("7"),
      << "B", "A", "N", "D" >> \o Label2("6", "l"),
      T_band \o Label2("6", "H"), T_band \o Label("6"),
      T_band \o Label2("1", "0"), T_band \o Label2("9", "9"),
      T_band, Label("4"), T_bands }

\* scene.<bandname>: attribute access on a constructed scene
GetAttribute(bandname, opens) ==
    /\ scene.constructed
    /\ nobjects < MaxObjects
    /\ IF bandname \in OwnAttributes
       THEN /\ result' = [ op |-> "getattr", name |-> bandname,
                           kind |-> "attribute" ]
            /\ log' = << >>
            /\ UNCHANGED <<bands, nobjects>>
       ELSE LET out == Getattr(scene, bandname, opens)
            IN  /\ result' = [ op |-> "getattr", name |-> bandname,
                               kind |-> out.kind, band |-> out.band,
                               keyname |-> out.keyname,
                               message |-> out.message,
                               obj |-> IF out.kind = "Landsatband"
                                       THEN nobjects + 1 ELSE 0 ]
                /\ log' = OpenErrorLog(out)
                /\ IF out.kind = "Landsatband"
                   THEN /\ nobjects' = nobjects + 1
                        /\ bands' = StoreBand(bands, out.band, nobjects + 1)
                   ELSE UNCHANGED <<bands, nobjects>>
    /\ UNCHANGED <<scene, lband, fs>>

\* logging.critical in the except AttributeError clause of NDVI and NBR
IndexErrorLog(index, labels, kind) ==
    IF kind = "AttributeError"
    THEN << [ level |-> "critical",
              text |-> << "Error accessing bands", labels[1], labels[2],
                          index >> ] >>
    ELSE << >>

\* The body shared by the NDVI and NBR properties: both bands are fetched
\* through __getattr__, their data read, and lu.normdiff applied.
IndexProperty(index, labels, opens1, opens2) ==
    LET out1 == Getattr(scene, labels[1], opens1)
        out2 == Getattr(scene, labels[2], opens2)
        \* .data of something that is not a raster is an AttributeError
        kind1 == IF out1.kind = "attribute" THEN "AttributeError" ELSE out1.kind
        kind2 == IF out2.kind = "attribute" THEN "AttributeError" ELSE out2.kind
        bands1 == IF out1.kind = "Landsatband"
                  THEN StoreBand(bands, out1.band, nobjects + 1) ELSE bands
    IN  /\ scene.constructed
        /\ nobjects + 2 <= MaxObjects
        /\ IF kind1 # "Landsatband"
           THEN /\ result' = [ op |-> index, kind |-> kind1, failed |-> 1,
                               labels |-> labels ]
                /\ log' = OpenErrorLog(out1) \o IndexErrorLog(index, labels, kind1)
                /\ UNCHANGED <<bands, nobjects>>
           ELSE IF kind2 # "Landsatband"
           THEN /\ result' = [ op |-> index, kind |-> kind2, failed |-> 2,
                               labels |-> labels ]
                /\ log' = OpenErrorLog(out2) \o IndexErrorLog(index, labels, kind2)
                /\ bands' = bands1
                /\ nobjects' = nobjects + 1
           ELSE /\ result' = [ op |-> index, kind |-> "ok", failed |-> 0,
                               labels |-> labels,
                               value |-> << "normdiff", nobjects + 1,
                                            nobjects + 2 >> ]
                /\ log' = << >>
                /\ bands' = StoreBand(bands1, out2.band, nobjects + 2)
                /\ nobjects' = nobjects + 2
        /\ UNCHANGED <<scene, lband, fs>>

NDVI(opens1, opens2) ==
    IndexProperty("NDVI", NDVI_BANDS(scene.spacecraft), opens1, opens2)

NBR(opens1, opens2) ==
    IndexProperty("NBR", NBR_BANDS(scene.spacecraft), opens1, opens2)

(***************************************************************************)
(* Landsatband                                                             *)
(***************************************************************************)
T_L1 == << "L", "1" >>

\* An attribute (gain, bias, k1, k2) that has not been assigned; an
\* assigned one is << value >>.
Unset == << >>

\* The scene objects a band may be bound to: anything exposing meta,
\* spacecraft and newmetaformat.  coeff holds the values the metadata gives
\* for the band's RADIANCE_MULT, RADIANCE_ADD, REFLECTANCE_MULT and
\* REFLECTANCE_ADD keys.
NoMeta ==
    [ present |-> FALSE, spacecraft |-> << >>, newformat |-> TRUE,
      radmult |-> 0, radadd |-> 0, reflmult |-> 0, refladd |-> 0 ]

BandMeta(sp, nf, rm, fm) ==
    [ present |-> TRUE, spacecraft |-> sp, newformat |-> nf,
      radmult |-> rm, radadd |-> 0 - rm, reflmult |-> fm, refladd |-> 0 - fm ]

NoSceneArg ==
    [ given |-> FALSE, spacecraft |-> << >>, newmetaformat |-> TRUE,
      meta |-> NoMeta ]

SceneArgs ==
    { [ given |-> TRUE, spacecraft |-> sp, newmetaformat |-> nf,
        meta |-> BandMeta(sp, nf, rm, fm) ] :
        sp \in { T_L8, T_L7, T_L5, T_L1 }, nf \in BOOLEAN,
        rm \in 1..MaxCoeff, fm \in 1..MaxCoeff }
    \cup
    { [ given |-> TRUE, spacecraft |-> sp, newmetaformat |-> TRUE,
        meta |-> NoMeta ] : sp \in { T_L8, T_L7 } }
    \cup { NoSceneArg }

BandLabels == { Label("4"), Label("6"), Label2("6", "H"), Label2("1", "0") }

NoBand ==
    [ constructed |-> FALSE, band |-> << >>, scene |-> NoSceneArg,
      meta |-> NoMeta, lookupok |-> FALSE,
      gain |-> Unset, bias |-> Unset, k1 |-> Unset, k2 |-> Unset ]

\* Landsatband.__init__: the value self.meta ends up with.  filepathset
\* tells whether self.filepath exists when the lookup by file name is
\* attempted; lookupok whether lu.parsemeta finds metadata for that name;
\* filemeta is what it would return.
InitialMeta(sceneArg, filepathset, lookupok, filemeta) ==
    IF sceneArg.given /\ sceneArg.meta.present
    THEN sceneArg.meta
    ELSE IF filepathset /\ lookupok THEN filemeta ELSE NoMeta

\* self.filepath is assigned by GeoTIFF.__init__, which runs last.
FilepathSetAtLookup == FALSE

MetaWarning ==
    [ level |-> "warning",
      text |-> << "Could not find metadata for band object." >> ]

LandsatbandInit(band, sceneArg, lookupok, opens) ==
    LET meta == InitialMeta(sceneArg, FilepathSetAtLookup, lookupok,
                            BandMeta(T_L8, TRUE, 1, 1))
        looked == ~(sceneArg.given /\ sceneArg.meta.present)
        warned == IF looked /\ ~FilepathSetAtLookup
                  THEN << MetaWarning >> ELSE << >>
    IN  /\ ~lband.constructed
        /\ IF opens
           THEN /\ lband' = [ NoBand EXCEPT !.constructed = TRUE,
                                            !.band = band,
                                            !.scene = sceneArg,
                                            !.meta = meta,
                                            !.lookupok = lookupok ]
                /\ result' = [ op |-> "Landsatband", kind |-> "ok" ]
                /\ log' = warned
           ELSE /\ UNCHANGED lband
                /\ result' = [ op |-> "Landsatband", kind |-> "RuntimeError" ]
                /\ log' = warned \o
                          << [ level |-> "error",
                               text |-> << "Could not open" >> ] >>
        /\ UNCHANGED <<scene, bands, nobjects, fs>>

\* Landsatband.spacecraft, for a band bound to a scene
Spacecraft(b) == b.scene.spacecraft

\* Landsatband.newmetaformat, for a band bound to a scene
NewMetaFormat(b) == b.scene.newmetaformat

\* Which calibration keys the metadata of a product holds for a band.
HasRadianceRescaling(meta, band) ==
    meta.spacecraft = T_L8 /\ InList(band, LANDSATBANDS_OLI)

HasReflectanceRescaling(meta, band) ==
    /\ meta.spacecraft = T_L8
    /\ InList(band, SubSeq(LANDSATBANDS_OLI, 1, 9))

HasMinMax(meta, newformat, band) ==
    /\ meta.newformat = newformat
    /\ BandKeyName(newformat, band) \in USGSFileKeys(newformat, meta.spacecraft)

HasThermalConstants(meta, band) ==
    meta.spacecraft = T_L8 /\ band \in { Label2("1", "0"), Label2("1", "1") }

\* ReflectanceGain reading the radiance coefficient instead.
ReflectanceGain_FromRadiance(meta) == << meta.radmult >>

\* The gain stored by an access: which coefficient self.gain is assigned.
RadianceGain(meta) == << meta.radmult >>
RadianceBias(meta) == << meta.radadd >>
ReflectanceGain(meta) == << meta.reflmult >>
ReflectanceBias(meta) == << meta.refladd >>

\* Landsatband.radiance: the outcome and the gain/bias attributes after it.
RadianceOf(b) ==
    LET keep == [ kind |-> "value", gain |-> b.gain, bias |-> b.bias,
                  value |-> << >> ]
    IN  IF ~b.meta.present
        THEN [ keep EXCEPT !.kind = "PygaarstRasterError" ]
        ELSE IF Spacecraft(b) = T_L8
        THEN IF ~HasRadianceRescaling(b.meta, b.band)
             THEN [ keep EXCEPT !.kind = "KeyError" ]
             ELSE [ keep EXCEPT !.gain = RadianceGain(b.meta),
                                !.bias = RadianceBias(b.meta),
                                !.value = << "dn2rad", RadianceGain(b.meta),
                                             RadianceBias(b.meta) >> ]
        ELSE IF ~HasMinMax(b.meta, NewMetaFormat(b), b.band)
             THEN [ keep EXCEPT !.kind = "KeyError" ]
             ELSE [ keep EXCEPT !.value = << "dn2rad", "gainbias",
                                             NewMetaFormat(b) >> ]

Radiance ==
    /\ lband.constructed
    /\ LET out == RadianceOf(lband)
       IN  /\ lband' = [ lband EXCEPT !.gain = out.gain, !.bias = out.bias ]
           /\ result' = [ op |-> "radiance", kind |-> out.kind,
                          value |-> out.value ]
    /\ log' = << >>
    /\ UNCHANGED <<scene, bands, nobjects, fs>>

\* Landsatband.reflectance
ReflectanceOf(b) ==
    LET keep == [ kind |-> "value", gain |-> b.gain, bias |-> b.bias,
                  value |-> << >> ]
        rad == RadianceOf(b)
    IN  IF ~b.meta.present
        THEN [ keep EXCEPT !.kind = "PygaarstRasterError" ]
        ELSE IF Spacecraft(b) = T_L8
        THEN IF ~HasReflectanceRescaling(b.meta, b.band)
             THEN [ keep EXCEPT !.kind = "KeyError" ]
             ELSE [ keep EXCEPT !.gain = ReflectanceGain(b.meta),
                                !.bias = ReflectanceBias(b.meta),
                                !.value = << "dn2rad/sin",
                                             ReflectanceGain(b.meta),
                                             ReflectanceBias(b.meta) >> ]
        ELSE IF Spacecraft(b) \in { T_L5, T_L7 }
        THEN IF rad.kind # "value"
             THEN [ keep EXCEPT !.kind = rad.kind ]
             ELSE [ keep EXCEPT !.value = << "pi d d rad/esun sin" >>
                                          \o rad.value ]
        ELSE [ keep EXCEPT !.kind = "None" ]

Reflectance ==
    /\ lband.constructed
    /\ LET out == ReflectanceOf(lband)
       IN  /\ lband' = [ lband EXCEPT !.gain = out.gain, !.bias = out.bias ]
           /\ result' = [ op |-> "reflectance", kind |-> out.kind,
                          value |-> out.value ]
    /\ log' = << >>
    /\ UNCHANGED <<scene, bands, nobjects, fs>>

\* The test under which tKelvin gives up with a warning.
NotImplementedTemperature(spacecraft, band) ==
    \/ spacecraft = T_L8 /\ band \notin { Label2("1", "0"), Label2("1", "1") }
    \/ spacecraft # T_L8 /\ ~StartsWith(band, << "6" >>)

TemperatureWarning ==
    [ level |-> "warning",
      text |-> << "Automatic brightness Temp not implemented." >> ]

\* The spacecraft for which tKelvin assigns k1 and k2.
AssignsK(spacecraft) ==
    spacecraft \in { T_L8, T_L4, T_L5, T_L7 }

\* Landsatband.tKelvin: the outcome and the attributes after it.
TKelvinOf(b) ==
    LET sp == Spacecraft(b)
        keep == [ kind |-> "value", gain |-> b.gain, bias |-> b.bias,
                  k1 |-> b.k1, k2 |-> b.k2, value |-> << >>, log |-> << >> ]
        rad == RadianceOf(b)
        \* k1, k2 as the elif chain leaves them
        k1 == IF ~AssignsK(sp) THEN b.k1
              ELSE IF sp = T_L8 THEN << "K1_CONSTANT_BAND", b.band >>
              ELSE << "getKconstants", sp, 1 >>
        k2 == IF ~AssignsK(sp) THEN b.k2
              ELSE IF sp = T_L8 THEN << "K2_CONSTANT_BAND", b.band >>
              ELSE << "getKconstants", sp, 2 >>
    IN  IF ~b.scene.given
        THEN [ keep EXCEPT !.kind = "PygaarstRasterError" ]
        ELSE IF NotImplementedTemperature(sp, b.band)
        THEN [ keep EXCEPT !.kind = "None", !.log = << TemperatureWarning >> ]
        ELSE IF sp = T_L8 /\ ~b.meta.present
        THEN [ keep EXCEPT !.kind = "TypeError" ]
        ELSE IF sp = T_L8 /\ ~HasThermalConstants(b.meta, b.band)
        THEN [ keep EXCEPT !.kind = "KeyError" ]
        ELSE IF rad.kind # "value"
        THEN [ keep EXCEPT !.kind = rad.kind, !.k1 = k1, !.k2 = k2 ]
        ELSE IF k1 = Unset
        THEN [ keep EXCEPT !.kind = "AttributeError",
                           !.gain = rad.gain, !.bias = rad.bias ]
        ELSE [ keep EXCEPT !.gain = rad.gain, !.bias = rad.bias,
                           !.k1 = k1, !.k2 = k2,
                           !.value = << "rad2kelvin", rad.value, k1, k2 >> ]

TKelvin ==
    /\ lband.constructed
    /\ LET out == TKelvinOf(lband)
       IN  /\ lband' = [ lband EXCEPT !.gain = out.gain, !.bias = out.bias,
                                      !.k1 = out.k1, !.k2 = out.k2 ]
           /\ result' = [ op |-> "tKelvin", kind |-> out.kind,
                          value |-> out.value ]
           /\ log' = out.log
    /\ UNCHANGED <<scene, bands, nobjects, fs>>

NextBand ==
    \/ \E band \in BandLabels, sceneArg \in SceneArgs,
          lookupok \in BOOLEAN, opens \in BOOLEAN :
            LandsatbandInit(band, sceneArg, lookupok, opens)
    \/ Radiance
    \/ Reflectance
    \/ TKelvin

(***************************************************************************)
(* GeoTIFF.clone                                                           *)
(***************************************************************************)
\* NPDTYPE2GDALTYPECODE, read with the comma the source lacks after the
\* "float32" entry.
NPDTYPE2GDALTYPECODE ==
    [ t \in { "uint8", "int8", "uint16", "int16", "uint32", "int32",
              "float32", "float64", "complex64", "complex128" } |->
        CASE t = "uint8" -> 1
          [] t = "int8" -> 1
          [] t = "uint16" -> 2
          [] t = "int16" -> 3
          [] t = "uint32" -> 4
          [] t = "int32" -> 5
          [] t = "float32" -> 6
          [] t = "float64" -> 7
          [] t = "complex64" -> 10
          [] t = "complex128" -> 11 ]

DTypeNames == DOMAIN NPDTYPE2GDALTYPECODE \cup { "float16", "bool" }

\* self.data.shape of a raster with nbands bands
DataShape(nbands) ==
    IF nbands = 1 THEN << NRows, NCols >> ELSE << nbands, NRows, NCols >>

NewDataShapes ==
    { << NRows, NCols >>, << NCols >>, << NCols, NRows >> }
    \cup { << k, NRows, NCols >> : k \in 1..MaxBands }

\* Destinations: the directory part of newpath ("" when there is none,
\* otherwise whether it exists) and whether newpath itself is a directory.
Destinations ==
    { [ dirname |-> "", isdir |-> FALSE ],
      [ dirname |-> "", isdir |-> TRUE ],
      [ dirname |-> "existing", isdir |-> FALSE ],
      [ dirname |-> "existing", isdir |-> TRUE ],
      [ dirname |-> "missing", isdir |-> FALSE ] }

\* The first check of clone: the error raised for the destination, if any.
DestinationError(dest) == dest.dirname = "missing"

\* The warning logged when newpath is a directory.
DestinationLog(dest) ==
    IF dest.isdir
    THEN << [ level |-> "warning", text |-> << "%s is a directory." >> ] >>
    ELSE << >>

ShapeError(nbands, shape) ==
    shape # DataShape(nbands) /\ shape # Tail(DataShape(nbands))

\* bands, from newdata.ndim and newdata.shape
BandCount(shape) == IF Len(shape) = 2 THEN 1 ELSE shape[1]

\* The number of turns of the loop writing a 3-dimensional array.
WriteTurns(shape) == Len(shape)

\* The band indices written, in order, until GetRasterBand fails.
WrittenBands(shape) ==
    IF Len(shape) = 2 THEN << 1 >>
    ELSE [ i \in 1..(IF WriteTurns(shape) <= BandCount(shape)
                     THEN WriteTurns(shape) ELSE BandCount(shape)) |-> i ]

\* Whether the loop asks for a band the new file does not have.
WriteFails(shape) == Len(shape) > 2 /\ WriteTurns(shape) > BandCount(shape)

NoFile == [ exists |-> FALSE, bands |-> 0, written |-> << >>, dtype |-> "" ]

\* GeoTIFF.clone(newpath, newdata) on a raster with nbands bands
Clone(nbands, dest, shape, dtype) ==
    LET input == [ nbands |-> nbands, dest |-> dest, shape |-> shape,
                   dtype |-> dtype ]
        raise(reason) == [ op |-> "clone", kind |-> "PygaarstRasterError",
                           reason |-> reason, input |-> input ]
    IN  IF DestinationError(dest)
        THEN /\ result' = raise("destination")
             /\ log' = << >>
             /\ UNCHANGED fs
        ELSE IF ShapeError(nbands, shape)
        THEN /\ result' = raise("shape")
             /\ log' = DestinationLog(dest)
             /\ UNCHANGED fs
        ELSE IF Len(shape) < 2
        THEN /\ result' = raise("dimensions")
             /\ log' = DestinationLog(dest)
             /\ UNCHANGED fs
        ELSE IF dtype \notin DOMAIN NPDTYPE2GDALTYPECODE
        THEN /\ result' = raise("datatype")
             /\ log' = DestinationLog(dest)
             /\ UNCHANGED fs
        ELSE IF dest.isdir
        THEN \* the driver cannot create a file where a directory is
             /\ result' = [ op |-> "clone", kind |-> "RuntimeError",
                            reason |-> "create", input |-> input ]
             /\ log' = DestinationLog(dest)
             /\ UNCHANGED fs
        ELSE /\ fs' = [ exists |-> TRUE, bands |-> BandCount(shape),
                        written |-> WrittenBands(shape),
                        dtype |-> dtype ]
             /\ result' = IF WriteFails(shape)
                          THEN [ op |-> "clone", kind |-> "RuntimeError",
                                 reason |-> "band", input |-> input ]
                          ELSE [ op |-> "clone", kind |-> "GeoTIFF",
                                 reason |-> "", input |-> input ]
             /\ log' = << >>

\* One call of clone, on a destination at which no file was created yet.
CloneCall(nbands, dest, shape, dtype) ==
    /\ result = NoResult
    /\ Clone(nbands, dest, shape, dtype)
    /\ UNCHANGED <<scene, bands, nobjects, lband>>

NextClone ==
    \E nbands \in 1..MaxBands, dest \in Destinations,
       shape \in NewDataShapes, dtype \in DTypeNames :
        CloneCall(nbands, dest, shape, dtype)

Init ==
    /\ scene = NoScene
    /\ bands = << >>
    /\ nobjects = 0
    /\ lband = NoBand
    /\ fs = NoFile
    /\ result = NoResult
    /\ log = << >>

NextScene ==
    \/ \E meta \in MetaFiles : LandsatsceneInit(meta)
    \/ \E bandname \in AttrNames, opens \in BOOLEAN : GetAttribute(bandname, opens)
    \/ \E opens1 \in BOOLEAN, opens2 \in BOOLEAN : NDVI(opens1, opens2)
    \/ \E opens1 \in BOOLEAN, opens2 \in BOOLEAN : NBR(opens1, opens2)

SpecScene == Init /\ [][NextScene]_vars


SpecBand == Init /\ [][NextBand]_vars

SpecClone == Init /\ [][NextClone]_vars

\* Every operation of the module.
Next == NextScene \/ NextBand \/ NextClone

Spec == Init /\ [][Next]_vars

(***************************************************************************)
(* Properties                                                              *)
(***************************************************************************)
\* An attribute name of the form band<label>, in any case, and its label.
IsBandRequest(name) == Len(name) >= 4 /\ Lower(SubSeq(name, 1, 4)) = T_band
RequestedLabel(name) == Upper(SubSeq(name, 5, Len(name)))

\* sub occurs in s
Contains(s, sub) == Occurrences(s, sub) # {}

\* The last operation was a call of __getattr__ for a band<label> name.
BandAccess ==
    /\ result.op = "getattr"
    /\ result.kind # "attribute"
    /\ IsBandRequest(result.name)

\* The last band access reached the lookup of the band's file name.
LookedUp == result.kind \in { "Landsatband", "KeyError", "RuntimeError" }

\* The token of a label: every 'L' and 'H' of it substituted at once.
GainToken(newformat, c) ==
    CASE c = "L" -> (IF newformat THEN T__VCID_1 ELSE << "1" >>)
      [] c = "H" -> (IF newformat THEN T__VCID_2 ELSE << "2" >>)
      [] OTHER -> << c >>

LabelToken(newformat, label) ==
    Join(<< >>, [ i \in 1..Len(label) |-> GainToken(newformat, label[i]) ])

\* C1: for every permissible band label, band access looks the file name up
\* under FILE_NAME_BAND_<token> (new format: L -> _VCID_1, H -> _VCID_2) or
\* under BAND<token>_FILE_NAME (legacy format: L -> 1, H -> 2), the format
\* being the flag the scene took from its metadata at construction.
C1_BandKeyConstruction ==
    (BandAccess /\ InList(RequestedLabel(result.name), scene.permissiblebands))
    => /\ LookedUp
       /\ scene.newmetaformat = ("PROCESSING_SOFTWARE_VERSION" \in scene.meta.has)
       /\ result.keyname =
            IF scene.newmetaformat
            THEN T_FILE_NAME_BAND_
                   \o LabelToken(TRUE, RequestedLabel(result.name))
            ELSE T_BAND \o LabelToken(FALSE, RequestedLabel(result.name))
                   \o T__FILE_NAME

\* A legacy-format scene resolved its high-gain band 6.
C1_Witness ==
    /\ BandAccess
    /\ result.kind = "Landsatband"
    /\ result.band = Label2("6", "H")
    /\ ~scene.newmetaformat

\* The last band access asked a Landsat 7 scene for band 6L.
Access6LOnL7 ==
    /\ BandAccess
    /\ RequestedLabel(result.name) = Label2("6", "L")
    /\ scene.spacecraft = T_L7

\* C2 as stated: band "6L" of a Landsat 7 scene resolves to the key
\* FILE_NAME_BAND__VCID_1 (new format) or BAND1_FILE_NAME (legacy format).
C2_Original ==
    Access6LOnL7
    => result.keyname =
         IF scene.newmetaformat
         THEN << "F","I","L","E","_","N","A","M","E","_","B","A","N","D","_",
                 "_","V","C","I","D","_","1" >>
         ELSE << "B","A","N","D","1","_","F","I","L","E","_","N","A","M","E" >>

\* C2 amended: band "6L" of a Landsat 7 scene resolves to the key
\* FILE_NAME_BAND_6_VCID_1 (new format) or BAND61_FILE_NAME (legacy format):
\* the band number stays in the key.
C2_Amended ==
    Access6LOnL7
    => /\ LookedUp
       /\ result.keyname =
            IF scene.newmetaformat
            THEN << "F","I","L","E","_","N","A","M","E","_","B","A","N","D",
                    "_","6","_","V","C","I","D","_","1" >>
            ELSE << "B","A","N","D","6","1","_","F","I","L","E","_",
                    "N","A","M","E" >>

\* A new-format Landsat 7 scene resolved its low-gain band 6.
C2_Witness ==
    /\ Access6LOnL7
    /\ result.kind = "Landsatband"
    /\ scene.newmetaformat

\* C3: a band access for a label outside the spacecraft's permissible set
\* fails, on a scene that was constructed, with a PygaarstRasterError whose
\* message names the spacecraft and lists the permissible labels; no file
\* name is looked up and no Landsatband is constructed or stored for it.
C3_UnsupportedBand ==
    (BandAccess /\ ~InList(RequestedLabel(result.name), scene.permissiblebands))
    => /\ scene.constructed
       /\ result.kind = "PygaarstRasterError"
       /\ Contains(result.message, << "Spacecraft " >> \o scene.spacecraft)
       /\ Contains(result.message,
                   Join(<< ",", " " >>, scene.permissiblebands) \o << "." >>)
       /\ \A i \in 1..Len(scene.permissiblebands) :
            Contains(result.message, scene.permissiblebands[i])
       /\ result.keyname = << >>
       /\ result.obj = 0
       /\ RequestedLabel(result.name) \notin DOMAIN bands

\* Band 99 was requested of a Landsat 8 scene.
C3_Witness ==
    /\ BandAccess
    /\ RequestedLabel(result.name) = Label2("9", "9")
    /\ scene.spacecraft = T_L8
    /\ result.kind = "PygaarstRasterError"

\* C4: a scene constructs at most one Landsatband per label: an access to a
\* label already resolved returns the stored band.
C4_OneConstructionPerLabel == nobjects <= Cardinality(DOMAIN bands)

\* C5: when NDVI or NBR fails because a band is unsupported or its file key
\* is missing, the failure was caught and logged with the band pair.
C5_IndexFailureLogged ==
    (result.op \in { "NDVI", "NBR" }
       /\ result.kind \in { "PygaarstRasterError", "KeyError" })
    => \E i \in 1..Len(log) :
         /\ log[i].level = "critical"
         /\ Contains(log[i].text, << result.labels[1], result.labels[2] >>)

\* No temperature formula is defined for the spacecraft and band.
NoTemperatureFormula(spacecraft, band) ==
    \/ spacecraft = T_L8 /\ band \notin { Label2("1", "0"), Label2("1", "1") }
    \/ spacecraft \in { T_L4, T_L5, T_L7 } /\ band[1] # "6"
    \/ spacecraft \notin { T_L4, T_L5, T_L7, T_L8 }

\* C6: tKelvin of a scene-bound band for which no temperature formula is
\* defined gives None and logs a warning; it does not raise.
C6_NoFormulaGivesNone ==
    (result.op = "tKelvin" /\ lband.scene.given
       /\ NoTemperatureFormula(lband.scene.spacecraft, lband.band))
    => /\ result.kind = "None"
       /\ \E i \in 1..Len(log) : log[i].level = "warning"

\* C7: clone raises the invalid-destination PygaarstRasterError, creating
\* no file, when the parent directory of newpath is missing and when
\* newpath is itself a directory.
C7_InvalidDestination ==
    (result.op = "clone"
       /\ (result.input.dest.dirname = "missing" \/ result.input.dest.isdir))
    => /\ result.kind = "PygaarstRasterError"
       /\ result.reason = "destination"
       /\ ~fs.exists

C9_StandaloneLookup ==
    (lband.constructed /\ lband.lookupok
       /\ ~(lband.scene.given /\ lband.scene.meta.present))
    => lband.meta.present

\* C10: a successful clone creates as many bands as the data has (one for
\* 2-dimensional data) and writes each of them, 1..k, exactly once.
C10_AllBandsWritten ==
    (result.op = "clone" /\ result.kind = "GeoTIFF")
    => LET shape == result.input.shape
           k == IF Len(shape) = 2 THEN 1 ELSE shape[1]
       IN  /\ fs.exists
           /\ fs.bands = k
           /\ fs.written = [ i \in 1..k |-> i ]

====
